---- MODULE Spec2Model ----
(***************************************************************************)
(* Placement engines of the wooden cutting-plan optimizer.                 *)
(*                                                                         *)
(*   guillotine : optimizer/guillotine.py  optimize_cutting_plan           *)
(*   legacy     : optimizer.py             CuttingOptimizer.optimize       *)
(*   backend    : backend/optimization_algorithm.py CuttingOptimizer       *)
(*                                                                         *)
(* One behaviour is one run of one engine on one input.  Lengths are       *)
(* whole millimetres; a percentage is kept exact as Percent(n, d).         *)
(* Part names are modelled by their rank in lexicographic order.           *)
(***************************************************************************)
EXTENDS Integers, Sequences, FiniteSets, TLC

VARIABLES
    engine,               \* which optimizer this run executes
    inventory,            \* the inventory list given as input
    parts,                \* the part list given as input
    params,               \* CuttingParameters
    pc,                   \* position in the running function
    required_left,        \* guillotine: Dict[key, int]
    stick_plans,          \* guillotine: List[StickPlan]
    stick,                \* guillotine: the StickPlan being filled
    length_cursor,        \* guillotine
    item_idx,             \* guillotine: index of `item` in inventory
    stick_i,              \* guillotine: `i` of range(item.quantity)
    total_stock_volume,   \* guillotine
    total_cut_volume,     \* guillotine
    total_cuts,           \* guillotine
    part_idx,             \* legacy: position of `part` in part_list
    cutting_plans,        \* legacy: List[CuttingPlan]
    stock_usage,          \* legacy: Dict[stock.id, int]
    unassigned_parts,     \* legacy: List[Tuple[Part, int]]
    remaining_quantity,   \* backend
    offcuts,              \* backend: self.offcuts
    used_lumber,          \* backend: Dict[lumber name, int]
    total_utilization,    \* backend: the terms summed so far
    total_waste,          \* backend
    result,               \* the OptimizationResult returned
    first_run             \* what an earlier call on the same arguments returned

vars == <<engine, inventory, parts, params, pc, required_left, stick_plans,
          stick, length_cursor, item_idx, stick_i, total_stock_volume,
          total_cut_volume, total_cuts, part_idx, cutting_plans, stock_usage,
          unassigned_parts, remaining_quantity, offcuts, used_lumber,
          total_utilization, total_waste, result, first_run>>

guillotineVars == <<required_left, stick_plans, stick, length_cursor, item_idx,
                    stick_i, total_stock_volume, total_cut_volume, total_cuts>>
legacyVars == <<part_idx, cutting_plans, stock_usage, unassigned_parts>>
backendVars == <<remaining_quantity, offcuts, used_lumber, total_utilization,
                 total_waste>>

----------------------------------------------------------------------------
(* Bounds of the explored inputs *)

MaxStockQty == 2
MaxPartQty == 2
MaxKerf == 1

----------------------------------------------------------------------------
(* Generic helpers *)

RECURSIVE SumSeq(_)
SumSeq(s) == IF s = <<>> THEN 0 ELSE Head(s) + SumSeq(Tail(s))

RECURSIVE Flatten(_)
Flatten(ss) == IF ss = <<>> THEN <<>> ELSE Head(ss) \o Flatten(Tail(ss))

Last(s) == s[Len(s)]

\* Subsequences of length 1 or 2 of a pool, in pool order
SubLists(pool) ==
    { <<pool[i]>> : i \in 1..Len(pool) } \cup
    { <<pool[ij[1]], pool[ij[2]]>> :
        ij \in { q \in (1..Len(pool)) \X (1..Len(pool)) : q[1] < q[2] } }

\* Percentages, kept exact: Percent(n, d) is the percentage 100 * n / d
Percent(n, d) == [n |-> n, d |-> d]
PercentZero == Percent(0, 1)
RECURSIVE Gcd(_, _)
Gcd(a, b) == IF b = 0 THEN a ELSE Gcd(b, a % b)
\* equality of two fractions of positive denominator, in lowest terms
PercentEq(a, b) ==
    IF a.d = b.d THEN a.n = b.n
    ELSE LET ga == Gcd(a.d, IF a.n < 0 THEN -a.n ELSE a.n)
             gb == Gcd(b.d, IF b.n < 0 THEN -b.n ELSE b.n)
         IN /\ a.n \div ga = b.n \div gb
            /\ a.d \div ga = b.d \div gb
\* 100 - p
HundredMinus(p) == Percent(p.d - p.n, p.d)

\* sorted(seq, key=...): before[i][j] is key(s[i]) < key(s[j]).  Python's sort
\* is stable: elements with equal keys keep their input order.
SortedBy(s, before) ==
    LET rank(i) == 1 + Cardinality({ j \in 1..Len(s) :
                         \/ before[j][i]
                         \/ ~before[i][j] /\ j < i })
    IN [k \in 1..Len(s) |-> s[CHOOSE i \in 1..Len(s) : rank(i) = k]]

----------------------------------------------------------------------------
(* optimizer/models.py *)

Dimension3D(l, w, t) == [length_mm |-> l, width_mm |-> w, thickness_mm |-> t]

Volume(d) == d.length_mm * d.width_mm * d.thickness_mm

Tolerance(l, w, t) == [length_mm |-> l, width_mm |-> w, thickness_mm |-> t]

within(tol, required, actual) ==
    /\ actual.length_mm >= required.length_mm - tol.length_mm
    /\ actual.width_mm >= required.width_mm - tol.width_mm
    /\ actual.thickness_mm >= required.thickness_mm - tol.thickness_mm

InventoryItem(name, dims, quantity, cost) ==
    [name |-> name, dimensions_mm |-> dims, quantity |-> quantity,
     cost_per_unit |-> cost]

PartRequirement(key, name, dims, qty, lw, wt, lt, grain, priority) ==
    [key |-> key, name |-> name, required_dimensions_mm |-> dims,
     quantity_total |-> qty,
     allow_rotation_length_width |-> lw,
     allow_rotation_width_thickness |-> wt,
     allow_rotation_length_thickness |-> lt,
     enforce_grain_along_length |-> grain,
     priority |-> priority]

CuttingParameters(kerf, keep, tol, prio) ==
    [kerf_mm |-> kerf, min_offcut_keep_mm |-> keep, tolerance |-> tol,
     optimization_priority |-> prio]

CutPiece(key, dims, pos) == [part_key |-> key, dims_mm |-> dims, position_mm |-> pos]

Offcut(dims, pos) == [dims_mm |-> dims, position_mm |-> pos]

----------------------------------------------------------------------------
(* optimizer/guillotine.py *)

LengthSegmentPlan(start, end, cuts, ocs) ==
    [start_mm |-> start, end_mm |-> end, cuts |-> cuts, offcuts |-> ocs]

StickPlan(name, index, dims, segments) ==
    [inventory_name |-> name, stick_index |-> index, dims_mm |-> dims,
     segments |-> segments]

\* every candidate accepted
_fits_always(required, available, tol) == TRUE

_fits(required, available, tol) == within(tol, required, available)

\* the order by priority, volume and name
GuillotineSortByVolume(p, q) ==
    \/ p.priority > q.priority
    \/ /\ p.priority = q.priority
       /\ Volume(p.required_dimensions_mm) > Volume(q.required_dimensions_mm)
    \/ /\ p.priority = q.priority
       /\ Volume(p.required_dimensions_mm) = Volume(q.required_dimensions_mm)
       /\ p.name < q.name

\* an order of the names that differs from one call to the next
GuillotineSortByRun(p, q) ==
    \/ p.priority > q.priority
    \/ /\ p.priority = q.priority
       /\ IF first_run.stick_plans = <<>> THEN p.name < q.name ELSE q.name < p.name

\* key=lambda p: (-p.priority, p.name)
GuillotineSortBefore(p, q) ==
    \/ p.priority > q.priority
    \/ p.priority = q.priority /\ p.name < q.name

GuillotineSortedParts(ps) ==
    SortedBy(ps, [i \in 1..Len(ps) |-> [j \in 1..Len(ps) |->
                    GuillotineSortBefore(ps[i], ps[j])]])

RECURSIVE Unique(_, _)
Unique(dims, seen) ==
    IF dims = <<>> THEN <<>>
    ELSE IF Head(dims) \in seen THEN Unique(Tail(dims), seen)
    ELSE <<Head(dims)>> \o Unique(Tail(dims), seen \cup {Head(dims)})

\* no rotation tried
candidate_dims_identity(part) == <<part.required_dimensions_mm>>

\* the rotation flags alone, the grain flag unread
candidate_dims_ignoring_grain(part) ==
    LET req == part.required_dimensions_mm
        dims == <<req>>
                \o (IF part.allow_rotation_width_thickness
                    THEN <<Dimension3D(req.length_mm, req.thickness_mm, req.width_mm)>>
                    ELSE <<>>)
                \o (IF part.allow_rotation_length_width
                    THEN <<Dimension3D(req.width_mm, req.length_mm, req.thickness_mm)>>
                    ELSE <<>>)
                \o (IF part.allow_rotation_length_thickness
                    THEN <<Dimension3D(req.thickness_mm, req.width_mm, req.length_mm)>>
                    ELSE <<>>)
    IN Unique(dims, {})

\* lines 102-118
candidate_dims(part) ==
    LET req == part.required_dimensions_mm
        part_len == req.length_mm
        part_w == req.width_mm
        part_t == req.thickness_mm
        dims == <<Dimension3D(part_len, part_w, part_t)>>
                \o (IF part.allow_rotation_width_thickness
                    THEN <<Dimension3D(part_len, part_t, part_w)>> ELSE <<>>)
                \o (IF ~part.enforce_grain_along_length
                    THEN (IF part.allow_rotation_length_width
                          THEN <<Dimension3D(part_w, part_len, part_t)>> ELSE <<>>)
                         \o (IF part.allow_rotation_length_thickness
                             THEN <<Dimension3D(part_t, part_w, part_len)>> ELSE <<>>)
                    ELSE <<>>)
    IN Unique(dims, {})

\* a piece as long as the remaining length is turned away
LengthAdmitsStrict(remaining_length, kerf, cand) == remaining_length > cand.length_mm

\* the negation of `remaining_length + params.kerf_mm < cand.length_mm`
LengthAdmits(remaining_length, kerf, cand) ==
    ~(remaining_length + kerf < cand.length_mm)

\* the candidates the inner `for cand` loop would accept, in order
AcceptedDims(part, item, remaining_length, ps) ==
    SelectSeq(candidate_dims(part),
              LAMBDA cand : /\ LengthAdmits(remaining_length, ps.kerf_mm, cand)
                            /\ _fits(cand, item.dimensions_mm, ps.tolerance))

\* the parts the `for part in sorted(...)` loop does not skip, in order
PlaceableParts(ps_parts, left, item, remaining_length, ps) ==
    SelectSeq(GuillotineSortedParts(ps_parts),
              LAMBDA part : /\ left[part.key] > 0
                            /\ AcceptedDims(part, item, remaining_length, ps) # <<>>)

\* a forgotten decrement
DecrementLeftForgotten(left, key) == left

\* a decrement by two
DecrementLeftTwice(left, key) == [left EXCEPT ![key] = left[key] - 2]

\* required_left[part.key] = qty_left - 1
DecrementLeft(left, key) == [left EXCEPT ![key] = left[key] - 1]

AllSatisfied(left) == \A k \in DOMAIN left : left[k] <= 0

\* the width strip recorded after a placement (lines 148-160)
WidthOffcuts(item, picked_dims, piece_x, ps) ==
    LET width_offcut == item.dimensions_mm.width_mm - picked_dims.width_mm
    IN IF width_offcut >= ps.min_offcut_keep_mm
       THEN <<Offcut(Dimension3D(picked_dims.length_mm,
                                 width_offcut - ps.kerf_mm,
                                 picked_dims.thickness_mm),
                     <<piece_x, picked_dims.width_mm + ps.kerf_mm, 0>>)>>
       ELSE <<>>

\* the remainder recorded when nothing fits (lines 164-177)
LeftoverOffcuts(item, cursor, ps) ==
    LET leftover_len == item.dimensions_mm.length_mm - cursor
    IN IF leftover_len >= ps.min_offcut_keep_mm
       THEN <<Offcut(Dimension3D(leftover_len,
                                 item.dimensions_mm.width_mm,
                                 item.dimensions_mm.thickness_mm),
                     <<cursor, 0, 0>>)>>
       ELSE <<>>

\* (total_cut_volume / total_stock_volume) * 100.0 if total_stock_volume > 0 else 0.0
GuillotineUtilization(cut_volume, stock_volume) ==
    IF stock_volume > 0 THEN Percent(cut_volume, stock_volume) ELSE PercentZero

\* the complement taken without the guard on the stock volume
GuillotineWasteUnguarded(utilization, stock_volume) == HundredMinus(utilization)

\* 100.0 - utilization_percent if total_stock_volume > 0 else 0.0
GuillotineWaste(utilization, stock_volume) ==
    IF stock_volume > 0 THEN HundredMinus(utilization) ELSE PercentZero

summary_by_part(ps_parts, left) ==
    [key \in {p.key : p \in {ps_parts[i] : i \in 1..Len(ps_parts)}} |->
        LET part == CHOOSE p \in {ps_parts[i] : i \in 1..Len(ps_parts)} : p.key = key
        IN [produced |-> part.quantity_total - left[key],
            requested |-> part.quantity_total]]

----------------------------------------------------------------------------
(* Inputs of the guillotine engine *)

\* name, dimensions, cost per unit; the quantity is chosen by Init
GuillotineStockPool ==
    << InventoryItem("mid",   Dimension3D(6, 5, 2),  0, 9),
       InventoryItem("board", Dimension3D(10, 4, 2), 0, 5),
       InventoryItem("slat",  Dimension3D(4, 2, 1),  0, 1) >>

\* names by lexicographic rank: 1 "block" < 2 "plank"; two parts are named "plank"
GuillotinePartPool ==
    << PartRequirement("k1", 2, Dimension3D(5, 2, 2), 0, TRUE, FALSE, FALSE, TRUE, 0),
       PartRequirement("k2", 1, Dimension3D(2, 4, 2), 0, TRUE, FALSE, FALSE, FALSE, 0),
       PartRequirement("k3", 2, Dimension3D(3, 2, 1), 0, FALSE, TRUE, TRUE, FALSE, 0) >>

\* a list of one type with 0..MaxStockQty units, or of two with 1..MaxStockQty each
WithStockQuantities(items) ==
    IF Len(items) = 1
    THEN { <<[items[1] EXCEPT !.quantity = q]>> : q \in 0..MaxStockQty }
    ELSE { <<[items[1] EXCEPT !.quantity = q[1]],
             [items[2] EXCEPT !.quantity = q[2]]>> :
             q \in (1..MaxStockQty) \X (1..MaxStockQty) }

GuillotineInventories ==
    UNION { WithStockQuantities(items) : items \in SubLists(GuillotineStockPool) }

\* one part with 0..MaxPartQty pieces, or two with their relative priorities
WithPartQuantities(ps) ==
    IF Len(ps) = 1
    THEN { <<[ps[1] EXCEPT !.quantity_total = q]>> : q \in 0..MaxPartQty }
    ELSE { <<[ps[1] EXCEPT !.quantity_total = q[1], !.priority = q[3][1]],
             [ps[2] EXCEPT !.quantity_total = q[2], !.priority = q[3][2]]>> :
             q \in (1..MaxPartQty) \X (1..MaxPartQty)
                   \X {<<0, 0>>, <<0, 1>>, <<1, 0>>} }

GuillotinePartLists ==
    UNION { WithPartQuantities(ps) : ps \in SubLists(GuillotinePartPool) }

GuillotineParams ==
    { CuttingParameters(kerf, kt[1], kt[2], "efficiency") :
        kerf \in 0..MaxKerf,
        kt \in { <<0, Tolerance(0, 0, 0)>>, <<2, Tolerance(0, 0, 0)>>,
                 <<0, Tolerance(1, 0, 1)>> } }
    \cup { CuttingParameters(0, 0, Tolerance(0, 0, 0), prio) : prio \in {"cost", "speed"} }

\* the worked examples of the specification
ExhaustionExample ==
    [inventory |-> <<InventoryItem("stock", Dimension3D(2400, 175, 90), 1, 0)>>,
     parts |-> <<PartRequirement("part", 1, Dimension3D(1200, 100, 20), 2,
                                 FALSE, FALSE, FALSE, TRUE, 1)>>,
     params |-> CuttingParameters(3, 0, Tolerance(0, 0, 0), "efficiency")]

\* part 300x50x20 with the length-width rotation allowed and grain enforcement
\* off, on a single stock 100x300x20 of quantity >= 1
GuillotineRotationExamples ==
    { [inventory |-> <<InventoryItem("stock", Dimension3D(100, 300, 20), sq, 0)>>,
       parts |-> <<PartRequirement("part", 1, Dimension3D(300, 50, 20), pq,
                                   TRUE, FALSE, FALSE, FALSE, 1)>>,
       params |-> CuttingParameters(kerf, 0, Tolerance(0, 0, 0), "efficiency")] :
        sq \in 1..MaxStockQty, pq \in 1..MaxPartQty, kerf \in 0..MaxKerf }

\* stock 1000x100x50 of quantity 1, part 500x100x50 of quantity 2 without
\* rotation, kerf 0, zero tolerance
ExactFitExamples ==
    { [inventory |-> <<InventoryItem("stock", Dimension3D(1000, 100, 50), 1, 0)>>,
       parts |-> <<PartRequirement("part", 1, Dimension3D(500, 100, 50), 2,
                                   FALSE, FALSE, FALSE, grain, 1)>>,
       params |-> CuttingParameters(0, keep, Tolerance(0, 0, 0), "efficiency")] :
        grain \in BOOLEAN, keep \in {0, 2} }

GuillotineInputs ==
    [inventory : GuillotineInventories, parts : GuillotinePartLists,
     params : GuillotineParams]
    \cup {ExhaustionExample}
    \cup ExactFitExamples
    \cup GuillotineRotationExamples

----------------------------------------------------------------------------
(* The run of optimize_cutting_plan (optimizer/guillotine.py) *)

NoStick == StickPlan("", 0, Dimension3D(0, 0, 0), <<>>)
NoResult == [utilization_percent |-> PercentZero, waste_percent |-> PercentZero,
             total_cuts |-> 0, summary_by_part |-> <<>>]

\* no earlier call has returned yet
NoFirstRun == [stick_plans |-> <<>>, result |-> NoResult]

\* the variables of the backend optimizer, in a run of another engine
UnusedBackendVars ==
    /\ remaining_quantity = 0 /\ offcuts = <<>> /\ used_lumber = <<>>
    /\ total_utilization = <<>> /\ total_waste = 0

\* the locals of optimize_cutting_plan(inp.inventory, inp.parts, inp.params) at
\* its first loop
GuillotineStart(inp) ==
    /\ engine = "guillotine"
    /\ inventory = inp.inventory
    /\ parts = inp.parts
    /\ params = inp.params
    /\ required_left = [key \in {inp.parts[i].key : i \in 1..Len(inp.parts)} |->
                          (CHOOSE p \in {inp.parts[i] : i \in 1..Len(inp.parts)} :
                              p.key = key).quantity_total]
    /\ pc = "for_stick"
    /\ stick_plans = <<>>
    /\ stick = NoStick
    /\ length_cursor = 0
    /\ item_idx = 1
    /\ stick_i = 0
    /\ total_stock_volume = 0
    /\ total_cut_volume = 0
    /\ total_cuts = 0
    /\ part_idx = 0 /\ cutting_plans = <<>> /\ stock_usage = <<>>
    /\ unassigned_parts = <<>>
    /\ UnusedBackendVars
    /\ result = NoResult
    /\ first_run = NoFirstRun

GuillotineInit == \E inp \in GuillotineInputs : GuillotineStart(inp)

item == inventory[item_idx]

\* lines 73-82: the next unit of the current inventory item is opened
GOpenStick ==
    /\ engine = "guillotine" /\ pc = "for_stick"
    /\ item_idx <= Len(inventory)
    /\ stick_i < item.quantity
    /\ stick' = StickPlan(item.name, stick_i + 1, item.dimensions_mm, <<>>)
    /\ length_cursor' = 0
    /\ pc' = "while_length"
    /\ UNCHANGED legacyVars
    /\ UNCHANGED backendVars
    /\ UNCHANGED <<engine, first_run, inventory, parts, params, required_left, stick_plans,
                   item_idx, stick_i, total_stock_volume, total_cut_volume,
                   total_cuts, result>>

\* lines 191-196, run whenever the while loop of a stick is left
CloseStick(segments) ==
    /\ stick_plans' = Append(stick_plans, [stick EXCEPT !.segments = segments])
    /\ total_stock_volume' = total_stock_volume + Volume(item.dimensions_mm)
    /\ stick' = NoStick
    /\ stick_i' = stick_i + 1
    /\ pc' = "for_stick"

\* lines 84-162 and 182-189: one pass of the while loop that places a piece
GPlace ==
    /\ engine = "guillotine" /\ pc = "while_length"
    /\ length_cursor < item.dimensions_mm.length_mm
    /\ LET L == item.dimensions_mm.length_mm
           remaining_length == L - length_cursor
           placeable == PlaceableParts(parts, required_left, item, remaining_length, params)
       IN /\ placeable # <<>>
          /\ LET part == Head(placeable)
                 picked_dims == Head(AcceptedDims(part, item, remaining_length, params))
                 cut_piece == CutPiece(part.key, picked_dims, <<length_cursor, 0, 0>>)
                 cursor == length_cursor + picked_dims.length_mm + params.kerf_mm
                 left == DecrementLeft(required_left, part.key)
                 segment == LengthSegmentPlan(length_cursor, cursor, <<cut_piece>>,
                                WidthOffcuts(item, picked_dims, length_cursor, params))
                 segments == Append(stick.segments, segment)
             IN /\ required_left' = left
                /\ total_cut_volume' = total_cut_volume + Volume(picked_dims)
                /\ total_cuts' = total_cuts + 1
                /\ length_cursor' = cursor
                /\ IF AllSatisfied(left) \/ ~(cursor < L)
                   THEN CloseStick(segments)
                   ELSE /\ stick' = [stick EXCEPT !.segments = segments]
                        /\ UNCHANGED <<stick_plans, total_stock_volume, stick_i, pc>>
    /\ UNCHANGED legacyVars
    /\ UNCHANGED backendVars
    /\ UNCHANGED <<engine, first_run, inventory, parts, params, item_idx, result>>

\* lines 84-95 and 164-181: a pass of the while loop in which nothing is placed
GEndStick ==
    /\ engine = "guillotine" /\ pc = "while_length"
    /\ length_cursor < item.dimensions_mm.length_mm
    /\ LET L == item.dimensions_mm.length_mm
           remaining_length == L - length_cursor
           segment == LengthSegmentPlan(length_cursor, length_cursor, <<>>,
                                        LeftoverOffcuts(item, length_cursor, params))
       IN /\ PlaceableParts(parts, required_left, item, remaining_length, params) = <<>>
          /\ CloseStick(Append(stick.segments, segment))
    /\ UNCHANGED legacyVars
    /\ UNCHANGED backendVars
    /\ UNCHANGED <<engine, first_run, inventory, parts, params, required_left, length_cursor,
                   item_idx, total_cut_volume, total_cuts, result>>

\* lines 74 and 198-199: the units of an item are used up; next item, or stop
GNextItem ==
    /\ engine = "guillotine" /\ pc = "for_stick"
    /\ item_idx <= Len(inventory)
    /\ ~(stick_i < item.quantity)
    /\ item_idx' = IF AllSatisfied(required_left) THEN Len(inventory) + 1
                   ELSE item_idx + 1
    /\ stick_i' = 0
    /\ UNCHANGED legacyVars
    /\ UNCHANGED backendVars
    /\ UNCHANGED <<engine, first_run, inventory, parts, params, pc, required_left, stick_plans,
                   stick, length_cursor, total_stock_volume, total_cut_volume,
                   total_cuts, result>>

\* lines 201-221
GResult ==
    /\ engine = "guillotine" /\ pc = "for_stick"
    /\ item_idx > Len(inventory)
    /\ result' = [utilization_percent |->
                      GuillotineUtilization(total_cut_volume, total_stock_volume),
                  waste_percent |->
                      GuillotineWaste(GuillotineUtilization(total_cut_volume,
                                          total_stock_volume), total_stock_volume),
                  total_cuts |-> total_cuts,
                  summary_by_part |-> summary_by_part(parts, required_left)]
    /\ pc' = "done"
    /\ UNCHANGED legacyVars
    /\ UNCHANGED backendVars
    /\ UNCHANGED <<engine, first_run, inventory, parts, params, required_left, stick_plans,
                   stick, length_cursor, item_idx, stick_i, total_stock_volume,
                   total_cut_volume, total_cuts>>

\* optimize_cutting_plan called once more with the same arguments: what the
\* first call returned is kept, and lines 64-78 set the locals up again
GRerun ==
    /\ engine = "guillotine" /\ pc = "done"
    /\ first_run = NoFirstRun
    /\ first_run' = [stick_plans |-> stick_plans, result |-> result]
    /\ required_left' = [key \in {parts[i].key : i \in 1..Len(parts)} |->
                            (CHOOSE p \in {parts[i] : i \in 1..Len(parts)} :
                                p.key = key).quantity_total]
    /\ pc' = "for_stick"
    /\ stick_plans' = <<>>
    /\ stick' = NoStick
    /\ length_cursor' = 0
    /\ item_idx' = 1
    /\ stick_i' = 0
    /\ total_stock_volume' = 0
    /\ total_cut_volume' = 0
    /\ total_cuts' = 0
    /\ result' = NoResult
    /\ UNCHANGED legacyVars
    /\ UNCHANGED backendVars
    /\ UNCHANGED <<engine, inventory, parts, params>>

----------------------------------------------------------------------------
(* data_models.py *)

LumberStock(name, l, w, t, quantity, cost) ==
    [name |-> name, id |-> name, length |-> l, width |-> w, thickness |-> t,
     quantity |-> quantity, cost_per_unit |-> cost]

StockVolume(stock) == stock.length * stock.width * stock.thickness

Part(id, name, l, w, t, qpp, products, allow_rotation, priority) ==
    [id |-> id, name |-> name, length |-> l, width |-> w, thickness |-> t,
     quantity_per_product |-> qpp, total_products |-> products,
     allow_rotation |-> allow_rotation, priority |-> priority]

total_quantity(part) == part.quantity_per_product * part.total_products

PartVolume(part) == part.length * part.width * part.thickness

LegacyParameters(kerf, keep, tol, grain, prio) ==
    [kerf |-> kerf, min_offcut_to_keep |-> keep, tolerance |-> tol,
     grain_direction |-> grain, optimization_priority |-> prio]

\* __post_init__ takes an actual dimension of 0 from the part
LegacyCutPiece(part, x, rotated, pl, pw, pt) ==
    [part |-> part, x |-> x, y |-> 0, z |-> 0, rotated |-> rotated,
     actual_length |-> IF pl = 0 THEN part.length ELSE pl,
     actual_width |-> IF pw = 0 THEN part.width ELSE pw,
     actual_thickness |-> IF pt = 0 THEN part.thickness ELSE pt]

CutVolume(c) == c.actual_length * c.actual_width * c.actual_thickness

LegacyOffcut(l, w, t, stock_id) ==
    [length |-> l, width |-> w, thickness |-> t, original_stock |-> stock_id,
     usable |-> TRUE]

CuttingPlan(stock, stock_index, cuts, ocs) ==
    [stock |-> stock, stock_index |-> stock_index, cuts |-> cuts, offcuts |-> ocs]

\* the saw cuts between the pieces of a plan
PlanCutsBetween(plan) == Len(plan.cuts) - 1

\* CuttingPlan.total_cuts
PlanTotalCuts(plan) == Len(plan.cuts)

\* success taken from the plans that were opened
success_when_plans(res) == res.cutting_plans # <<>>

\* OptimizationResult.success
success(res) == Len(res.unassigned_parts) = 0

----------------------------------------------------------------------------
(* optimizer.py: CuttingOptimizer *)

\* the sort keys of _sort_parts
SortPartsBefore(p, q, prio) ==
    IF prio = "maximize_efficiency"
    THEN \/ p.priority > q.priority
         \/ p.priority = q.priority /\ PartVolume(p) > PartVolume(q)
    ELSE IF prio = "minimize_cost"
    THEN \/ p.priority > q.priority
         \/ p.priority = q.priority /\ PartVolume(p) > PartVolume(q)
    ELSE \/ p.priority > q.priority
         \/ p.priority = q.priority /\ PartVolume(p) < PartVolume(q)

_sort_parts(ps, cp) ==
    SortedBy(ps, [i \in 1..Len(ps) |-> [j \in 1..Len(ps) |->
                    SortPartsBefore(ps[i], ps[j], cp.optimization_priority)]])

\* lines 31-35: each part repeated total_quantity times
RECURSIVE Expand(_)
Expand(sorted_parts) ==
    IF sorted_parts = <<>> THEN <<>>
    ELSE [k \in 1..total_quantity(Head(sorted_parts)) |-> Head(sorted_parts)]
         \o Expand(Tail(sorted_parts))

part_list(ps, cp) == Expand(_sort_parts(ps, cp))

\* the inventory offered smallest first
sorted_inventory_ascending(inv) ==
    SortedBy(inv, [i \in 1..Len(inv) |-> [j \in 1..Len(inv) |->
                     StockVolume(inv[i]) < StockVolume(inv[j])]])

\* sorted(inventory, key=lambda s: s.volume, reverse=True)
sorted_inventory(inv) ==
    SortedBy(inv, [i \in 1..Len(inv) |-> [j \in 1..Len(inv) |->
                     StockVolume(inv[i]) > StockVolume(inv[j])]])

part_dims(part) ==
    << <<part.length, part.width, part.thickness>>,
       <<part.length, part.thickness, part.width>>,
       <<part.width, part.length, part.thickness>>,
       <<part.width, part.thickness, part.length>>,
       <<part.thickness, part.length, part.width>>,
       <<part.thickness, part.width, part.length>> >>

\* orientation_index counts from 0, as enumerate() does
_check_grain_direction(part, orientation_index, cp) ==
    IF cp.grain_direction = "none" THEN TRUE
    ELSE IF ~part.allow_rotation /\ orientation_index # 0 THEN FALSE
    ELSE TRUE

OrientationFits(dims, stock, cp) ==
    /\ dims[1] <= stock.length + cp.tolerance
    /\ dims[2] <= stock.width + cp.tolerance
    /\ dims[3] <= stock.thickness + cp.tolerance

_get_possible_orientations(part, stock, cp) ==
    LET all == part_dims(part)
        kept == SelectSeq([i \in 1..Len(all) |-> i],
                    LAMBDA i : /\ _check_grain_direction(part, i - 1, cp)
                               /\ OrientationFits(all[i], stock, cp))
    IN [k \in 1..Len(kept) |->
          [rotated |-> kept[k] # 1, pl |-> all[kept[k]][1],
           pw |-> all[kept[k]][2], pt |-> all[kept[k]][3]]]

_part_fits_stock(part, stock, cp) ==
    Len(_get_possible_orientations(part, stock, cp)) > 0

_can_add_part_to_plan(plan, part, cp) ==
    IF plan.cuts = <<>> THEN _part_fits_stock(part, plan.stock, cp)
    ELSE LET used_volume == SumSeq([k \in 1..Len(plan.cuts) |-> CutVolume(plan.cuts[k])])
             remaining_volume == StockVolume(plan.stock) - used_volume
         IN PartVolume(part) <= remaining_volume

_calculate_offcuts(plan, cp) ==
    IF plan.cuts = <<>> THEN <<>>
    ELSE LET total_length_used ==
                 SumSeq([k \in 1..Len(plan.cuts) |-> plan.cuts[k].actual_length])
                 + (Len(plan.cuts) - 1) * cp.kerf
             remaining_length == plan.stock.length - total_length_used
         IN IF remaining_length >= cp.min_offcut_to_keep
            THEN <<LegacyOffcut(remaining_length, plan.stock.width,
                                plan.stock.thickness, plan.stock.id)>>
            ELSE <<>>

\* the next piece put right after the last one, without the kerf
NextXWithoutKerf(plan, cp) ==
    IF plan.cuts = <<>> THEN 0
    ELSE Last(plan.cuts).x + Last(plan.cuts).actual_length

\* x of the piece appended to a plan (lines 172-180)
NextX(plan, cp) ==
    IF plan.cuts = <<>> THEN 0
    ELSE Last(plan.cuts).x + Last(plan.cuts).actual_length + cp.kerf

\* _add_part_to_plan returns True exactly when an orientation exists ...
AddSucceeds(plan, part, cp) == _get_possible_orientations(part, plan.stock, cp) # <<>>

\* ... and then leaves the plan so
_add_part_to_plan(plan, part, cp) ==
    LET o == Head(_get_possible_orientations(part, plan.stock, cp))
        cut_piece == LegacyCutPiece(part, NextX(plan, cp), o.rotated, o.pl, o.pw, o.pt)
        with_cut == [plan EXCEPT !.cuts = Append(plan.cuts, cut_piece)]
    IN [with_cut EXCEPT !.offcuts = _calculate_offcuts(with_cut, cp)]

\* indices of the existing plans that take the part (lines 50-54)
AcceptingPlans(plans, part, cp) ==
    { k \in 1..Len(plans) : /\ _can_add_part_to_plan(plans[k], part, cp)
                            /\ AddSucceeds(plans[k], part, cp) }

\* only the largest stock type is tried
OpenableStocksFirstOnly(inv, usage, part, cp) ==
    SelectSeq(SubSeq(sorted_inventory(inv), 1, 1),
              LAMBDA stock : /\ usage[stock.id] < stock.quantity
                             /\ _part_fits_stock(part, stock, cp))

\* no stock type is ever opened
OpenableStocksNone(inv, usage, part, cp) == <<>>

\* the stock types that fit, whatever their usage
OpenableStocksUnbounded(inv, usage, part, cp) ==
    SelectSeq(sorted_inventory(inv), LAMBDA stock : _part_fits_stock(part, stock, cp))

\* the stock types the `for stock in sorted_inventory` loop would open (lines 58-60)
OpenableStocks(inv, usage, part, cp) ==
    SelectSeq(sorted_inventory(inv),
              LAMBDA stock : /\ usage[stock.id] < stock.quantity
                             /\ _part_fits_stock(part, stock, cp))

RECURSIVE _consolidate_unassigned(_)
_consolidate_unassigned(unassigned) ==
    IF unassigned = <<>> THEN <<>>
    ELSE LET rest == _consolidate_unassigned(SubSeq(unassigned, 1, Len(unassigned) - 1))
             u == Last(unassigned)
             hit == { k \in 1..Len(rest) : rest[k][1].id = u[1].id }
         IN IF hit = {} THEN Append(rest, u)
            ELSE [k \in 1..Len(rest) |->
                    IF k \in hit THEN <<u[1], rest[k][2] + u[2]>> ELSE rest[k]]

\* result.overall_efficiency (line 254)
LegacyEfficiency(plans) ==
    LET total_volume_available ==
            SumSeq([k \in 1..Len(plans) |-> StockVolume(plans[k].stock)])
        total_volume_used ==
            SumSeq([k \in 1..Len(plans) |->
                SumSeq([c \in 1..Len(plans[k].cuts) |-> CutVolume(plans[k].cuts[c])])])
    IN IF total_volume_available > 0
       THEN Percent(total_volume_used, total_volume_available)
       ELSE PercentZero

\* result.total_waste = 100 - result.overall_efficiency (line 255)
LegacyWaste(efficiency) == HundredMinus(efficiency)

StockCost(plans) == SumSeq([k \in 1..Len(plans) |-> plans[k].stock.cost_per_unit])

_calculate_results(plans, unassigned) ==
    [cutting_plans |-> plans,
     unassigned_parts |-> unassigned,
     total_sticks_used |-> Len(plans),
     total_cuts |-> SumSeq([k \in 1..Len(plans) |-> PlanTotalCuts(plans[k])]),
     overall_efficiency |-> IF plans # <<>> THEN LegacyEfficiency(plans) ELSE PercentZero,
     total_waste |-> IF plans # <<>> THEN LegacyWaste(LegacyEfficiency(plans))
                     ELSE PercentZero,
     total_cost |-> IF plans # <<>> THEN StockCost(plans) ELSE 0]

----------------------------------------------------------------------------
(* Inputs of the legacy optimizer *)

LegacyStockPool ==
    << LumberStock("mid",   6, 5, 2,  0, 9),
       LumberStock("board", 10, 4, 2, 0, 5),
       LumberStock("slat",  4, 2, 1,  0, 1) >>

\* names by lexicographic rank; "p1" and "p2" have the same volume
LegacyPartPool ==
    << Part("p1", 2, 5, 2, 2, 0, 1, FALSE, 0),
       Part("p2", 1, 2, 5, 2, 0, 1, FALSE, 0),
       Part("p3", 3, 3, 2, 1, 0, 1, TRUE, 0) >>

LegacyInventories ==
    UNION { WithStockQuantities(items) : items \in SubLists(LegacyStockPool) }

WithLegacyQuantities(ps) ==
    IF Len(ps) = 1
    THEN { <<[ps[1] EXCEPT !.quantity_per_product = q]>> : q \in 1..MaxPartQty }
    ELSE { <<[ps[1] EXCEPT !.quantity_per_product = q[1], !.priority = q[3][1]],
             [ps[2] EXCEPT !.quantity_per_product = q[2], !.priority = q[3][2]]>> :
             q \in (1..MaxPartQty) \X (1..MaxPartQty)
                   \X {<<0, 0>>, <<0, 1>>, <<1, 0>>} }

LegacyPartLists ==
    UNION { WithLegacyQuantities(ps) : ps \in SubLists(LegacyPartPool) }

LegacyParams ==
    { LegacyParameters(kerf, kt[1], kt[2], grain, prio) :
        kerf \in 1..MaxKerf,
        kt \in { <<0, 0>>, <<2, 1>> },
        grain \in {"none", "length"},
        prio \in {"maximize_efficiency", "minimize_cost", "fastest_cut"} }

\* the rotation example for the legacy optimizer
LegacyRotationExamples ==
    { [inventory |-> <<LumberStock("stock", 100, 300, 20, sq, 0)>>,
       parts |-> <<Part("part", 1, 300, 50, 20, pq, 1, TRUE, 1)>>,
       params |-> LegacyParameters(kerf, 0, 0, grain, "maximize_efficiency")] :
        sq \in 1..MaxStockQty, pq \in 1..MaxPartQty, kerf \in 1..MaxKerf,
        grain \in {"none", "length"} }

LegacyInputs ==
    [inventory : LegacyInventories, parts : LegacyPartLists, params : LegacyParams]
    \cup LegacyRotationExamples

----------------------------------------------------------------------------
(* The run of CuttingOptimizer.optimize (optimizer.py) *)

\* the locals of CuttingOptimizer(inp.params).optimize(inp.inventory, inp.parts)
\* at its loop over part_list
LegacyStart(inp) ==
    /\ engine = "legacy"
    /\ inventory = inp.inventory
    /\ parts = inp.parts
    /\ params = inp.params
    /\ stock_usage = [id \in {inp.inventory[k].id : k \in 1..Len(inp.inventory)} |-> 0]
    /\ pc = "for_part"
    /\ part_idx = 1
    /\ cutting_plans = <<>>
    /\ unassigned_parts = <<>>
    /\ required_left = <<>> /\ stick_plans = <<>> /\ stick = NoStick
    /\ length_cursor = 0 /\ item_idx = 0 /\ stick_i = 0
    /\ total_stock_volume = 0 /\ total_cut_volume = 0 /\ total_cuts = 0
    /\ UnusedBackendVars
    /\ result = NoResult
    /\ first_run = NoFirstRun

LegacyInit == \E inp \in LegacyInputs : LegacyStart(inp)

part == part_list(parts, params)[part_idx]

InPartLoop ==
    /\ engine = "legacy" /\ pc = "for_part"
    /\ part_idx <= Len(part_list(parts, params))

\* lines 46-54: the first existing plan that takes the part gets it
LAddToPlan ==
    /\ InPartLoop
    /\ AcceptingPlans(cutting_plans, part, params) # {}
    /\ LET k == CHOOSE k \in AcceptingPlans(cutting_plans, part, params) :
                    \A j \in AcceptingPlans(cutting_plans, part, params) : k <= j
       IN cutting_plans' = [cutting_plans EXCEPT
                               ![k] = _add_part_to_plan(cutting_plans[k], part, params)]
    /\ part_idx' = part_idx + 1
    /\ UNCHANGED <<stock_usage, unassigned_parts>>
    /\ UNCHANGED guillotineVars
    /\ UNCHANGED backendVars
    /\ UNCHANGED <<engine, first_run, inventory, parts, params, pc, result>>

\* lines 56-70: no plan takes the part, a unit of the first fitting stock is opened
LNewStock ==
    /\ InPartLoop
    /\ AcceptingPlans(cutting_plans, part, params) = {}
    /\ OpenableStocks(inventory, stock_usage, part, params) # <<>>
    /\ LET stock == Head(OpenableStocks(inventory, stock_usage, part, params))
           plan == CuttingPlan(stock, stock_usage[stock.id], <<>>, <<>>)
       IN /\ cutting_plans' = Append(cutting_plans, _add_part_to_plan(plan, part, params))
          /\ stock_usage' = [stock_usage EXCEPT ![stock.id] = stock_usage[stock.id] + 1]
    /\ part_idx' = part_idx + 1
    /\ UNCHANGED unassigned_parts
    /\ UNCHANGED guillotineVars
    /\ UNCHANGED backendVars
    /\ UNCHANGED <<engine, first_run, inventory, parts, params, pc, result>>

\* lines 72-73
LUnassigned ==
    /\ InPartLoop
    /\ AcceptingPlans(cutting_plans, part, params) = {}
    /\ OpenableStocks(inventory, stock_usage, part, params) = <<>>
    /\ unassigned_parts' = Append(unassigned_parts, <<part, 1>>)
    /\ part_idx' = part_idx + 1
    /\ UNCHANGED <<cutting_plans, stock_usage>>
    /\ UNCHANGED guillotineVars
    /\ UNCHANGED backendVars
    /\ UNCHANGED <<engine, first_run, inventory, parts, params, pc, result>>

\* lines 75-82
LResult ==
    /\ engine = "legacy" /\ pc = "for_part"
    /\ part_idx > Len(part_list(parts, params))
    /\ unassigned_parts' = _consolidate_unassigned(unassigned_parts)
    /\ result' = _calculate_results(cutting_plans,
                                    _consolidate_unassigned(unassigned_parts))
    /\ pc' = "done"
    /\ UNCHANGED <<part_idx, cutting_plans, stock_usage>>
    /\ UNCHANGED guillotineVars
    /\ UNCHANGED backendVars
    /\ UNCHANGED <<engine, first_run, inventory, parts, params>>

----------------------------------------------------------------------------
(* backend/optimization_algorithm.py: CuttingOptimizer *)

\* dimensions are lists [length, width, thickness]
BackendPart(name, dims, quantity, allow_rotation, priority) ==
    [name |-> name, dimensions |-> dims, quantity |-> quantity,
     allow_rotation |-> allow_rotation, priority |-> priority]

BackendLumber(name, dims, quantity, cost) ==
    [name |-> name, dimensions |-> dims, quantity |-> quantity, cost |-> cost]

BackendParams(kerf, min_offcut, tolerance, prio) ==
    [kerf |-> kerf, min_offcut |-> min_offcut, tolerance |-> tolerance,
     grain_direction_enforcement |-> TRUE, optimization_priority |-> prio]

ListVolume(dims) == dims[1] * dims[2] * dims[3]

\* parts.sort(key=lambda p: (-p.priority, -volume))
BackendSortedParts(ps) ==
    SortedBy(ps, [i \in 1..Len(ps) |-> [j \in 1..Len(ps) |->
        \/ ps[i].priority > ps[j].priority
        \/ /\ ps[i].priority = ps[j].priority
           /\ ListVolume(ps[i].dimensions) > ListVolume(ps[j].dimensions)]])

orientations(part_dims_) ==
    << <<part_dims_[1], part_dims_[2], part_dims_[3]>>,
       <<part_dims_[1], part_dims_[3], part_dims_[2]>>,
       <<part_dims_[2], part_dims_[1], part_dims_[3]>>,
       <<part_dims_[2], part_dims_[3], part_dims_[1]>>,
       <<part_dims_[3], part_dims_[1], part_dims_[2]>>,
       <<part_dims_[3], part_dims_[2], part_dims_[1]>> >>

FitsWithin(dims, lumber_dims, tolerance) ==
    /\ dims[1] <= lumber_dims[1] + tolerance
    /\ dims[2] <= lumber_dims[2] + tolerance
    /\ dims[3] <= lumber_dims[3] + tolerance

_can_fit_part(bpart, lumber_dimensions, tolerance) ==
    \/ FitsWithin(bpart.dimensions, lumber_dimensions, tolerance)
    \/ /\ bpart.allow_rotation
       /\ \E k \in 1..6 :
             FitsWithin(orientations(bpart.dimensions)[k], lumber_dimensions, tolerance)

\* int(lumber_dims[k] // (orientation[k] + kerf)) on each axis
PartsAlong(orientation, lumber_dims, kerf, k) == lumber_dims[k] \div (orientation[k] + kerf)

TotalParts(orientation, lumber_dims, kerf) ==
    PartsAlong(orientation, lumber_dims, kerf, 1)
    * PartsAlong(orientation, lumber_dims, kerf, 2)
    * PartsAlong(orientation, lumber_dims, kerf, 3)

\* a fraction n / d
Frac(n, d) == [n |-> n, d |-> d]
FracGreater(a, b) == a.n * b.d > b.n * a.d

NoPlan == [orientation |-> <<>>, parts_per_layer |-> 0, layers |-> 0,
           utilization |-> Frac(0, 1)]

\* None, or the plan of the first orientation with the most parts
_create_2d_cut_plan(bpart, lumber_dimensions, kerf) ==
    LET os == orientations(bpart.dimensions)
        usable == { k \in 1..6 :
                      /\ FitsWithin(os[k], lumber_dimensions, 0)
                      /\ TotalParts(os[k], lumber_dimensions, kerf) > 0 }
        util(k) == Frac(TotalParts(os[k], lumber_dimensions, kerf) * ListVolume(os[k]),
                        ListVolume(lumber_dimensions))
    IN IF usable = {} THEN NoPlan
       ELSE LET best == CHOOSE k \in usable :
                           /\ \A j \in usable : ~FracGreater(util(j), util(k))
                           /\ \A j \in usable : j < k => FracGreater(util(k), util(j))
            IN [orientation |-> os[best],
                parts_per_layer |-> PartsAlong(os[best], lumber_dimensions, kerf, 1)
                                    * PartsAlong(os[best], lumber_dimensions, kerf, 2),
                layers |-> PartsAlong(os[best], lumber_dimensions, kerf, 3),
                utilization |-> util(best)]

\* the plan dict has no 'cuts' key, so speed scores 1 / (1 + 1)
_calculate_score(plan, optimization_priority) ==
    IF optimization_priority = "efficiency" THEN plan.utilization
    ELSE IF optimization_priority = "cost"
    THEN Frac(plan.utilization.d, plan.utilization.d + plan.utilization.n)
    ELSE IF optimization_priority = "speed" THEN Frac(1, 2)
    ELSE plan.utilization

\* the offcut loop hands the offcut dict itself to _can_fit_part, whose
\* lumber_dims[0] is then a KeyError: the search raises once an offcut exists
FindBestRaises(ocs) == ocs # <<>>

\* the (lumber, plan) pairs _find_best_cut_plan scores, in order
Candidates(bpart, lumber_stock, cp) ==
    LET fromStock ==
            [k \in 1..Len(lumber_stock) |->
               [lumber |-> lumber_stock[k],
                fits |-> /\ ~(lumber_stock[k].quantity <= 0)
                         /\ _can_fit_part(bpart, lumber_stock[k].dimensions, cp.tolerance),
                plan |-> _create_2d_cut_plan(bpart, lumber_stock[k].dimensions, cp.kerf)]]
    IN SelectSeq(fromStock, LAMBDA c : c.fits /\ c.plan # NoPlan)

NoCandidate == [lumber |-> BackendLumber("", <<>>, 0, 0), fits |-> FALSE,
                plan |-> NoPlan]

\* `if score > best_score` keeps the first candidate of the highest score
_find_best_cut_plan(bpart, lumber_stock, cp) ==
    LET cs == Candidates(bpart, lumber_stock, cp)
        score(k) == _calculate_score(cs[k].plan, cp.optimization_priority)
    IN IF cs = <<>> THEN NoCandidate
       ELSE cs[CHOOSE k \in 1..Len(cs) :
                 /\ \A j \in 1..Len(cs) : ~FracGreater(score(j), score(k))
                 /\ \A j \in 1..Len(cs) : j < k => FracGreater(score(k), score(j))]

_calculate_max_parts(plan) == plan.parts_per_layer * plan.layers

Min(a, b) == IF a < b THEN a ELSE b

\* int(math.sqrt(n))
IntSqrt(n) == CHOOSE r \in 0..n : r * r <= n /\ (r + 1) * (r + 1) > n

_calculate_cuts(parts_per_layer, layers) ==
    LET horizontal_cuts == layers - 1
        parts_x == IntSqrt(parts_per_layer)
        parts_y == parts_per_layer \div parts_x
    IN horizontal_cuts + (parts_x - 1) * layers + (parts_y - 1) * layers

_create_cut_plan(lumber, bpart, quantity, plan) ==
    LET actual_parts == Min(quantity, plan.parts_per_layer * plan.layers)
    IN [lumber_name |-> lumber.name,
        lumber_dimensions |-> lumber.dimensions,
        part_name |-> bpart.name,
        part_dimensions |-> plan.orientation,
        quantity |-> actual_parts,
        utilization |-> Frac(actual_parts * ListVolume(plan.orientation),
                             ListVolume(lumber.dimensions)),
        waste |-> ListVolume(lumber.dimensions)
                  - actual_parts * ListVolume(plan.orientation),
        cuts |-> _calculate_cuts(plan.parts_per_layer, plan.layers)]

BackendOffcut(id, dims, source) == [id |-> id, dimensions |-> dims, source |-> source]

\* self.offcuts after _add_offcuts
_add_offcuts(ocs, plan, lumber, cp) ==
    LET root == IntSqrt(plan.parts_per_layer)
        used_length == (plan.orientation[1] + cp.kerf) * root
        used_width == (plan.orientation[2] + cp.kerf) * (plan.parts_per_layer \div root)
        used_thickness == (plan.orientation[3] + cp.kerf) * plan.layers
        remaining_length == lumber.dimensions[1] - used_length
        remaining_width == lumber.dimensions[2] - used_width
        remaining_thickness == lumber.dimensions[3] - used_thickness
        a == IF remaining_length >= cp.min_offcut
             THEN Append(ocs, BackendOffcut(Len(ocs),
                      <<remaining_length, lumber.dimensions[2], lumber.dimensions[3]>>,
                      lumber.name))
             ELSE ocs
        b == IF remaining_width >= cp.min_offcut
             THEN Append(a, BackendOffcut(Len(a),
                      <<lumber.dimensions[1], remaining_width, lumber.dimensions[3]>>,
                      lumber.name))
             ELSE a
    IN IF remaining_thickness >= cp.min_offcut
       THEN Append(b, BackendOffcut(Len(b),
                      <<lumber.dimensions[1], lumber.dimensions[2], remaining_thickness>>,
                      lumber.name))
       ELSE b

\* used_lumber[lumber_name] += 1, the entry created at 0 when missing
CountLumber(used, name) ==
    [n \in DOMAIN used \cup {name} |->
        (IF n \in DOMAIN used THEN used[n] ELSE 0) + (IF n = name THEN 1 ELSE 0)]

----------------------------------------------------------------------------
(* Inputs of the backend optimizer *)

BackendLumberPool ==
    << BackendLumber("mid",   <<6, 5, 2>>,  0, 9),
       BackendLumber("board", <<10, 4, 2>>, 0, 5),
       BackendLumber("slat",  <<4, 2, 1>>,  0, 1) >>

BackendPartPool ==
    << BackendPart("plank",  <<5, 2, 2>>, 0, FALSE, 0),
       BackendPart("block",  <<2, 5, 2>>, 0, FALSE, 0),
       BackendPart("runner", <<3, 2, 1>>, 0, TRUE, 0) >>

\* a list of one type with 0..MaxStockQty units, or of two with one unit each
BackendLumberLists ==
    UNION { IF Len(items) = 1
            THEN { <<[items[1] EXCEPT !.quantity = q]>> : q \in 0..MaxStockQty }
            ELSE { <<[items[1] EXCEPT !.quantity = 1], [items[2] EXCEPT !.quantity = 1]>> }
            : items \in SubLists(BackendLumberPool) }

BackendPartLists ==
    UNION { IF Len(ps) = 1
            THEN { <<[ps[1] EXCEPT !.quantity = q]>> : q \in 1..MaxPartQty }
            ELSE { <<[ps[1] EXCEPT !.quantity = q[1], !.priority = q[3][1]],
                     [ps[2] EXCEPT !.quantity = q[2], !.priority = q[3][2]]>> :
                     q \in (1..MaxPartQty) \X (1..MaxPartQty)
                           \X {<<0, 0>>, <<0, 1>>} }
            : ps \in SubLists(BackendPartPool) }

\* a min_offcut no remainder of the pool's boards reaches
NoOffcutKept == 11

BackendParamSets ==
    { BackendParams(kerf, kt[1], kt[2], prio) :
        kerf \in 0..MaxKerf,
        kt \in { <<2, 1>>, <<NoOffcutKept, 0>> },
        prio \in {"efficiency", "cost", "speed"} }

BackendInputs ==
    [inventory : BackendLumberLists, parts : BackendPartLists, params : BackendParamSets]

----------------------------------------------------------------------------
(* The run of CuttingOptimizer.optimize (backend/optimization_algorithm.py) *)

BackendInit ==
    /\ engine = "backend"
    /\ \E inp \in BackendInputs :
         /\ inventory = inp.inventory
         /\ parts = BackendSortedParts(inp.parts)
         /\ params = inp.params
    /\ pc = "for_part_type"
    /\ part_idx = 1
    /\ cutting_plans = <<>>
    /\ remaining_quantity = 0
    /\ offcuts = <<>>
    /\ used_lumber = <<>>
    /\ total_utilization = <<>>
    /\ total_waste = 0
    /\ total_cuts = 0
    /\ stock_usage = <<>> /\ unassigned_parts = <<>>
    /\ required_left = <<>> /\ stick_plans = <<>> /\ stick = NoStick
    /\ length_cursor = 0 /\ item_idx = 0 /\ stick_i = 0
    /\ total_stock_volume = 0 /\ total_cut_volume = 0
    /\ result = NoResult
    /\ first_run = NoFirstRun

\* lines 62-63
BNextPart ==
    /\ engine = "backend" /\ pc = "for_part_type"
    /\ part_idx <= Len(parts)
    /\ remaining_quantity' = parts[part_idx].quantity
    /\ pc' = "while_remaining"
    /\ UNCHANGED <<offcuts, used_lumber, total_utilization, total_waste>>
    /\ UNCHANGED guillotineVars
    /\ UNCHANGED <<engine, first_run, inventory, parts, params, part_idx, cutting_plans,
                   stock_usage, unassigned_parts, result>>

\* lines 65-100: one pass of the while loop that cuts from the best lumber
BCut ==
    /\ engine = "backend" /\ pc = "while_remaining"
    /\ remaining_quantity > 0
    /\ ~FindBestRaises(offcuts)
    /\ \E best \in {_find_best_cut_plan(parts[part_idx], inventory, params)} :
         /\ best # NoCandidate
         /\ \E parts_to_cut \in {Min(_calculate_max_parts(best.plan), remaining_quantity)} :
            \E cut_plan \in {_create_cut_plan(best.lumber, parts[part_idx],
                                              parts_to_cut, best.plan)} :
              /\ cutting_plans' = Append(cutting_plans, cut_plan)
              /\ remaining_quantity' = remaining_quantity - parts_to_cut
              /\ total_utilization' = Append(total_utilization,
                     Frac(cut_plan.utilization.n * parts_to_cut, cut_plan.utilization.d))
              /\ total_waste' = total_waste + cut_plan.waste
              /\ total_cuts' = total_cuts + cut_plan.cuts
              /\ used_lumber' = CountLumber(used_lumber, best.lumber.name)
              /\ offcuts' = _add_offcuts(offcuts, best.plan, best.lumber, params)
    /\ UNCHANGED <<required_left, stick_plans, stick, length_cursor, item_idx,
                   stick_i, total_stock_volume, total_cut_volume>>
    /\ UNCHANGED <<engine, first_run, inventory, parts, params, pc, part_idx, stock_usage,
                   unassigned_parts, result>>

\* lines 67 and 126-127: the search for the next lumber raises KeyError,
\* which leaves optimize without a result
BRaise ==
    /\ engine = "backend" /\ pc = "while_remaining"
    /\ remaining_quantity > 0
    /\ FindBestRaises(offcuts)
    /\ pc' = "raised"
    /\ UNCHANGED backendVars
    /\ UNCHANGED guillotineVars
    /\ UNCHANGED <<engine, first_run, inventory, parts, params, part_idx, cutting_plans,
                   stock_usage, unassigned_parts, result>>

\* lines 65 and 72-74: the while loop ends, by its test or by the break
BLeavePart ==
    /\ engine = "backend" /\ pc = "while_remaining"
    /\ \/ ~(remaining_quantity > 0)
       \/ /\ ~FindBestRaises(offcuts)
          /\ _find_best_cut_plan(parts[part_idx], inventory, params) = NoCandidate
    /\ part_idx' = part_idx + 1
    /\ pc' = "for_part_type"
    /\ UNCHANGED backendVars
    /\ UNCHANGED guillotineVars
    /\ UNCHANGED <<engine, first_run, inventory, parts, params, cutting_plans, stock_usage,
                   unassigned_parts, result>>

\* lines 102-113
BResult ==
    /\ engine = "backend" /\ pc = "for_part_type"
    /\ part_idx > Len(parts)
    /\ result' = [cutting_plans |-> cutting_plans,
                  utilization_percentage |->
                      [sum |-> total_utilization,
                       total_parts |-> SumSeq([k \in 1..Len(parts) |-> parts[k].quantity])],
                  total_waste |-> total_waste,
                  total_cuts |-> total_cuts,
                  used_lumber |-> used_lumber,
                  remaining_offcuts |-> offcuts]
    /\ pc' = "done"
    /\ UNCHANGED backendVars
    /\ UNCHANGED guillotineVars
    /\ UNCHANGED <<engine, first_run, inventory, parts, params, part_idx, cutting_plans,
                   stock_usage, unassigned_parts>>

----------------------------------------------------------------------------

Init == GuillotineInit \/ LegacyInit \/ BackendInit

GuillotineNext == GOpenStick \/ GPlace \/ GEndStick \/ GNextItem \/ GResult

LegacyNext == LAddToPlan \/ LNewStock \/ LUnassigned \/ LResult

BackendNext == BNextPart \/ BCut \/ BRaise \/ BLeavePart \/ BResult

Next == GuillotineNext \/ LegacyNext \/ BackendNext

Spec == Init /\ [][Next]_vars

GuillotineSpec == GuillotineInit /\ [][GuillotineNext]_vars

TwoRunsNext == GuillotineNext \/ GRerun

\* two calls of the guillotine engine, one after the other, on the same arguments
TwoRunsSpec == GuillotineInit /\ [][TwoRunsNext]_vars

\* values the dataclasses of optimizer/models.py and data_models.py construct
\* without complaint: an axis of 0, a quantity of -1
InvalidGuillotineInputs ==
    { [inventory |-> <<InventoryItem("slat", Dimension3D(4, 2, st), sq, 1)>>,
       parts |-> <<PartRequirement("k3", 2, Dimension3D(pl, 2, 1), pq,
                                   FALSE, TRUE, TRUE, FALSE, 0)>>,
       params |-> CuttingParameters(kerf, 0, Tolerance(0, 0, 0), "efficiency")] :
        st \in {0, 1}, sq \in {0 - 1, 1}, pl \in {0, 3}, pq \in {0 - 1, 1},
        kerf \in 0..MaxKerf }

InvalidLegacyInputs ==
    { [inventory |-> <<LumberStock("slat", 4, 2, st, sq, 1)>>,
       parts |-> <<Part("p3", 3, pl, 2, 1, pq, 1, TRUE, 0)>>,
       params |-> LegacyParameters(kerf, 0, 0, "none", "maximize_efficiency")] :
        st \in {0, 1}, sq \in {0 - 1, 1}, pl \in {0, 3}, pq \in {0 - 1, 1},
        kerf \in 1..MaxKerf }

\* the guillotine engine or the legacy optimizer called with any value its
\* argument types construct
ConstructionInit ==
    \/ \E inp \in GuillotineInputs \cup InvalidGuillotineInputs : GuillotineStart(inp)
    \/ \E inp \in LegacyInputs \cup InvalidLegacyInputs : LegacyStart(inp)

ConstructionNext == GuillotineNext \/ LegacyNext

ConstructionSpec == ConstructionInit /\ [][ConstructionNext]_vars

LegacySpec == LegacyInit /\ [][LegacyNext]_vars

BackendSpec == BackendInit /\ [][BackendNext]_vars

----------------------------------------------------------------------------
(* What the properties below read off a state *)

\* the stick plans emitted so far, and the unit being cut
AllSticks == stick_plans \o (IF pc = "while_length" THEN <<stick>> ELSE <<>>)

StickCuts(st) == Flatten([k \in 1..Len(st.segments) |-> st.segments[k].cuts])
StickOffcuts(st) == Flatten([k \in 1..Len(st.segments) |-> st.segments[k].offcuts])

GuillotineCuts == Flatten([k \in 1..Len(AllSticks) |-> StickCuts(AllSticks[k])])
LegacyCuts == Flatten([k \in 1..Len(cutting_plans) |-> cutting_plans[k].cuts])

Range(s) == { s[k] : k \in 1..Len(s) }

\* pieces placed for a part
GuillotinePlaced(key) ==
    Cardinality({ k \in 1..Len(GuillotineCuts) : GuillotineCuts[k].part_key = key })
LegacyPlaced(id) ==
    Cardinality({ k \in 1..Len(LegacyCuts) : LegacyCuts[k].part.id = id })

\* the consolidated unassigned quantity of a part
LegacyMissing(id) ==
    SumSeq([k \in 1..Len(result.unassigned_parts) |->
              IF result.unassigned_parts[k][1].id = id
              THEN result.unassigned_parts[k][2] ELSE 0])

----------------------------------------------------------------------------
(* Properties *)

\* C1 (as claimed): on every stock unit, the sum over its pieces of
\* (length along the stock + kerf) does not exceed the unit's length.
KerfAccounting ==
    /\ engine = "guillotine" =>
         \A k \in 1..Len(AllSticks) :
            LET cuts == StickCuts(AllSticks[k])
            IN SumSeq([c \in 1..Len(cuts) |-> cuts[c].dims_mm.length_mm + params.kerf_mm])
                 <= AllSticks[k].dims_mm.length_mm
    /\ engine = "legacy" =>
         \A k \in 1..Len(cutting_plans) :
            LET cuts == cutting_plans[k].cuts
            IN SumSeq([c \in 1..Len(cuts) |-> cuts[c].actual_length + params.kerf])
                 <= cutting_plans[k].stock.length

\* C2 (as claimed): on the exhaustion example (stock 2400x175x90 qty 1, part
\* 1200x100x20 qty 2, kerf 3, zero tolerance) the guillotine engine places
\* exactly one piece and leaves one missing.
ExhaustionExamplePlacesOne ==
    ( /\ engine = "guillotine" /\ pc = "done"
      /\ inventory = ExhaustionExample.inventory
      /\ parts = ExhaustionExample.parts
      /\ params = ExhaustionExample.params )
    => /\ result.summary_by_part["part"].produced = 1
       /\ GuillotinePlaced("part") = 1
       /\ required_left["part"] = 1

\* C3: at the end of a run, for every part, pieces placed + unresolved count
\* = requested quantity (guillotine: remaining demand and the summary's
\* produced count; legacy: the consolidated unassigned quantity).
Conservation ==
    pc = "done" =>
      /\ engine = "guillotine" =>
           \A p \in Range(parts) :
              /\ GuillotinePlaced(p.key) + required_left[p.key] = p.quantity_total
              /\ result.summary_by_part[p.key].produced = GuillotinePlaced(p.key)
              /\ result.summary_by_part[p.key].requested = p.quantity_total
      /\ engine = "legacy" =>
           \A p \in Range(parts) :
              LegacyPlaced(p.id) + LegacyMissing(p.id) = total_quantity(p)

\* C3 witness: a finished guillotine run with a part partly produced
ConservationWitness ==
    /\ pc = "done" /\ engine = "guillotine"
    /\ \E p \in Range(parts) : GuillotinePlaced(p.key) >= 1 /\ required_left[p.key] >= 1

\* C4 (as claimed): with kerf > 0, every recorded offcut has each of its
\* three dimensions >= min_offcut_keep.
OffcutThreshold ==
    /\ (engine = "guillotine" /\ params.kerf_mm > 0) =>
         \A k \in 1..Len(AllSticks) : \A o \in Range(StickOffcuts(AllSticks[k])) :
            /\ o.dims_mm.length_mm >= params.min_offcut_keep_mm
            /\ o.dims_mm.width_mm >= params.min_offcut_keep_mm
            /\ o.dims_mm.thickness_mm >= params.min_offcut_keep_mm
    /\ (engine = "legacy" /\ params.kerf > 0) =>
         \A k \in 1..Len(cutting_plans) : \A o \in Range(cutting_plans[k].offcuts) :
            /\ o.length >= params.min_offcut_to_keep
            /\ o.width >= params.min_offcut_to_keep
            /\ o.thickness >= params.min_offcut_to_keep

\* volume of the placed pieces, and of the units that hold at least one piece
PlacedVolume == SumSeq([k \in 1..Len(GuillotineCuts) |-> Volume(GuillotineCuts[k].dims_mm)])
ConsumedVolume ==
    SumSeq([k \in 1..Len(stick_plans) |->
              IF StickCuts(stick_plans[k]) # <<>> THEN Volume(stick_plans[k].dims_mm)
              ELSE 0])

\* C5 (as claimed): the guillotine engine's utilization is 100 x placed volume
\* / volume of the units on which at least one piece was placed, 0 if none.
UtilizationOverConsumed ==
    (engine = "guillotine" /\ pc = "done") =>
       PercentEq(result.utilization_percent,
                 IF ConsumedVolume > 0 THEN Percent(PlacedVolume, ConsumedVolume)
                 ELSE PercentZero)

ReportedUtilization ==
    IF engine = "guillotine" THEN result.utilization_percent
    ELSE result.overall_efficiency
ReportedWaste ==
    IF engine = "guillotine" THEN result.waste_percent ELSE result.total_waste
\* a unit was opened (guillotine: a stick plan; legacy: a cutting plan)
SomeUnitOpened ==
    IF engine = "guillotine" THEN stick_plans # <<>> ELSE cutting_plans # <<>>

\* C6 (as claimed): waste = 100 - utilization in every result, also when no
\* stock unit is consumed.
WasteIsComplement ==
    (pc = "done" /\ engine \in {"guillotine", "legacy"}) => PercentEq(ReportedWaste, HundredMinus(ReportedUtilization))

\* C6 (amended): waste = 100 - utilization when a unit was opened; otherwise
\* utilization and waste are both 0.
WasteIsComplementWhenOpened ==
    (pc = "done" /\ engine \in {"guillotine", "legacy"}) =>
       IF SomeUnitOpened
       THEN PercentEq(ReportedWaste, HundredMinus(ReportedUtilization))
       ELSE /\ PercentEq(ReportedUtilization, PercentZero)
            /\ PercentEq(ReportedWaste, PercentZero)

\* C6 witness: a finished guillotine run that opened no unit
WasteWitness ==
    /\ pc = "done" /\ engine = "guillotine" /\ ~SomeUnitOpened
    /\ PercentEq(ReportedWaste, PercentZero)

\* C7 (as claimed): once the remaining demand is zero no further unit is
\* opened, so the last unit opened holds the last piece placed.
StopOnSatisfiedDemand ==
    (engine = "guillotine" /\ AllSatisfied(required_left) /\ AllSticks # <<>>)
       => StickCuts(Last(AllSticks)) # <<>>

PartByKey(key) == CHOOSE p \in Range(parts) : p.key = key
IndexOfKey(key) == CHOOSE k \in 1..Len(parts) : parts[k].key = key
IndexOfId(id) == CHOOSE k \in 1..Len(parts) : parts[k].id = id

\* C8 (as claimed): a part is never placed on a stock unit not used before
\* while an offcut recorded earlier in the run satisfies the per-axis fit
\* predicate for it (guillotine: the first piece of a unit against the offcuts
\* of the units closed before; backend: the search for lumber places the
\* pending part whenever an offcut fits it).
OffcutReusedBeforeFreshStock ==
    /\ engine = "guillotine" =>
         \A k \in 1..Len(AllSticks) : \A j \in 1..(k - 1) :
            StickCuts(AllSticks[k]) # <<>> =>
               \A o \in Range(StickOffcuts(AllSticks[j])) :
                  ~_fits(PartByKey(StickCuts(AllSticks[k])[1].part_key).required_dimensions_mm,
                         o.dims_mm, params.tolerance)
    /\ (engine = "backend" /\ pc = "raised") =>
         \A o \in Range(offcuts) :
            ~_can_fit_part(parts[part_idx], o.dimensions, params.tolerance)

\* the guillotine parts the placement step may pick on the current host
GuillotineFeasible ==
    { q \in Range(parts) :
        /\ required_left[q.key] > 0
        /\ AcceptedDims(q, item, item.dimensions_mm.length_mm - length_cursor,
                        params) # <<>> }

\* a step of the guillotine engine that places a piece of part p
GuillotinePlaces(p) ==
    /\ engine = "guillotine" /\ pc = "while_length"
    /\ required_left'[p.key] < required_left[p.key]

\* a step of the legacy optimizer from one part instance to the next
LegacyAdvances ==
    /\ engine = "legacy" /\ pc = "for_part"
    /\ part_idx' = part_idx + 1
    /\ part_idx + 1 <= Len(part_list(parts, params))

\* the order of the claim: priority descending, volume descending, name ascending
ClaimedBefore(pri_p, vol_p, name_p, pri_q, vol_q, name_q) ==
    \/ pri_p > pri_q
    \/ pri_p = pri_q /\ vol_p > vol_q
    \/ pri_p = pri_q /\ vol_p = vol_q /\ name_p < name_q

LegacyOpens ==
    /\ engine = "legacy" /\ pc = "for_part"
    /\ Len(cutting_plans') = Len(cutting_plans) + 1

\* a step of the guillotine engine that places the first piece of a unit
GuillotinePlacesOnFresh(p) ==
    /\ GuillotinePlaces(p)
    /\ stick.segments = <<>>

\* the inventory items of which the guillotine engine has a unit left, the
\* unit being cut included, that take part p at full length
GuillotineAvailableFor(p) ==
    { k \in item_idx..Len(inventory) :
        /\ k = item_idx \/ inventory[k].quantity > 0
        /\ AcceptedDims(p, inventory[k], inventory[k].dimensions_mm.length_mm,
                        params) # <<>> }

UnitsBefore(k) == SumSeq([j \in 1..(k - 1) |-> inventory[j].quantity])

CostPriority ==
    [][ /\ (LegacyOpens /\ params.optimization_priority = "minimize_cost") =>
              \A t \in Range(OpenableStocks(inventory, stock_usage, part, params)) :
                 Last(cutting_plans').stock.cost_per_unit <= t.cost_per_unit
        /\ \A p \in Range(parts) :
              (GuillotinePlacesOnFresh(p) /\ params.optimization_priority = "cost") =>
                 \A k \in GuillotineAvailableFor(p) :
                    item.cost_per_unit <= inventory[k].cost_per_unit ]_vars

\* C12 (as claimed): in the legacy optimizer, under every grain_direction, a
\* piece of a part whose allow_rotation is false has the part's own length,
\* width and thickness and rotated = false.
RotationDisallowedIsIdentity ==
    engine = "legacy" =>
       \A c \in Range(LegacyCuts) :
          ~c.part.allow_rotation =>
             /\ c.actual_length = c.part.length
             /\ c.actual_width = c.part.width
             /\ c.actual_thickness = c.part.thickness
             /\ c.rotated = FALSE

\* the orientations the flags of a part permit: the required dims, and each
\* single swap whose flag is set
PermittedDims(p) ==
    LET r == p.required_dimensions_mm
    IN {r}
       \cup (IF p.allow_rotation_length_width
             THEN {Dimension3D(r.width_mm, r.length_mm, r.thickness_mm)} ELSE {})
       \cup (IF p.allow_rotation_width_thickness
             THEN {Dimension3D(r.length_mm, r.thickness_mm, r.width_mm)} ELSE {})
       \cup (IF p.allow_rotation_length_thickness
             THEN {Dimension3D(r.thickness_mm, r.width_mm, r.length_mm)} ELSE {})

\* C13: every piece placed by the guillotine engine has the part's required
\* dims, or those with one pair of axes swapped whose flag is set; and under
\* enforce_grain_along_length its length is the part's required length.
PermittedOrientations ==
    engine = "guillotine" =>
       \A c \in Range(GuillotineCuts) :
          /\ c.dims_mm \in PermittedDims(PartByKey(c.part_key))
          /\ PartByKey(c.part_key).enforce_grain_along_length =>
                c.dims_mm.length_mm
                   = PartByKey(c.part_key).required_dimensions_mm.length_mm

\* C13 witness: a run with a piece of a grain-enforced part whose length-width
\* flag is set, and a piece placed with a pair of axes swapped
PermittedOrientationsWitness ==
    /\ engine = "guillotine"
    /\ \E c \in Range(GuillotineCuts) :
          /\ PartByKey(c.part_key).enforce_grain_along_length
          /\ PartByKey(c.part_key).allow_rotation_length_width
    /\ \E c \in Range(GuillotineCuts) :
          c.dims_mm # PartByKey(c.part_key).required_dimensions_mm

IsRotationExample ==
    [inventory |-> inventory, parts |-> parts, params |-> params]
       \in GuillotineRotationExamples \cup LegacyRotationExamples

\* C14: on the rotation example (part 300x50x20, length-width rotation
\* allowed, stock 100x300x20) a finished run has placed the part, every piece
\* of it as 50x300x20; the legacy optimizer marks each piece rotated.
RotationExampleRotated ==
    (pc = "done" /\ IsRotationExample) =>
       /\ engine = "guillotine" =>
             /\ GuillotineCuts # <<>>
             /\ \A c \in Range(GuillotineCuts) : c.dims_mm = Dimension3D(50, 300, 20)
       /\ engine = "legacy" =>
             /\ LegacyCuts # <<>>
             /\ \A c \in Range(LegacyCuts) :
                   /\ c.rotated = TRUE
                   /\ c.actual_length = 50
                   /\ c.actual_width = 300
                   /\ c.actual_thickness = 20

\* C14 witness: the guillotine engine finished the rotation example with a
\* piece 50x300x20 at the head of the first unit
RotationExampleWitness ==
    /\ pc = "done" /\ engine = "guillotine" /\ IsRotationExample
    /\ GuillotineCuts # <<>>
    /\ GuillotineCuts[1].dims_mm.length_mm = 50
    /\ GuillotineCuts[1].position_mm = <<0, 0, 0>>

IsExactFitExample ==
    /\ engine = "guillotine"
    /\ [inventory |-> inventory, parts |-> parts, params |-> params] \in ExactFitExamples

\* C15: on the exact-fit example (stock 1000x100x50 quantity 1, part
\* 500x100x50 quantity 2, no rotation, kerf 0, zero tolerance) the guillotine
\* engine places both instances on the single unit and reports
\* utilization_percent = 100.
ExactFitExampleFull ==
    (pc = "done" /\ IsExactFitExample) =>
       /\ Len(stick_plans) = 1
       /\ Len(StickCuts(stick_plans[1])) = 2
       /\ \A c \in Range(StickCuts(stick_plans[1])) :
             c.part_key = "part" /\ c.dims_mm = Dimension3D(500, 100, 50)
       /\ result.summary_by_part["part"].produced = 2
       /\ PercentEq(result.utilization_percent, Percent(1, 1))

\* C15 witness: the exact-fit example finished with the second piece at 500
ExactFitExampleWitness ==
    /\ pc = "done" /\ IsExactFitExample
    /\ Len(GuillotineCuts) = 2
    /\ GuillotineCuts[2].position_mm = <<500, 0, 0>>

\* C16: every piece placed by the guillotine engine satisfies, on each of the
\* three axes, host axis >= piece axis - tolerance of the axis, against the
\* dimensions of the stock unit that holds it.
FitValidity ==
    engine = "guillotine" =>
       \A k \in 1..Len(AllSticks) : \A c \in Range(StickCuts(AllSticks[k])) :
          /\ AllSticks[k].dims_mm.length_mm
                >= c.dims_mm.length_mm - params.tolerance.length_mm
          /\ AllSticks[k].dims_mm.width_mm
                >= c.dims_mm.width_mm - params.tolerance.width_mm
          /\ AllSticks[k].dims_mm.thickness_mm
                >= c.dims_mm.thickness_mm - params.tolerance.thickness_mm

\* C16 witness: a piece thicker than its host, placed within the tolerance
FitValidityWitness ==
    /\ engine = "guillotine"
    /\ \E k \in 1..Len(AllSticks) : \E c \in Range(StickCuts(AllSticks[k])) :
          c.dims_mm.thickness_mm > AllSticks[k].dims_mm.thickness_mm

\* units of a stock type drawn into service: the guillotine stick plans of its
\* name, the unit being cut included; the legacy cutting plans on it
UnitsDrawn(name) ==
    IF engine = "guillotine"
    THEN Cardinality({ k \in 1..Len(AllSticks) : AllSticks[k].inventory_name = name })
    ELSE Cardinality({ k \in 1..Len(cutting_plans) : cutting_plans[k].stock.id = name })

\* C17: in the legacy optimizer and the guillotine engine, for every stock
\* type the number of units drawn into service starts at 0, never decreases
\* and never exceeds the type's quantity (so a type of quantity 0 has no plan);
\* the legacy usage counter equals that number.
StockSupplyMonotone ==
    /\ engine \in {"guillotine", "legacy"} =>
          \A t \in Range(inventory) : UnitsDrawn(t.name) = 0
    /\ [](engine \in {"guillotine", "legacy"} =>
            \A t \in Range(inventory) :
               /\ UnitsDrawn(t.name) <= t.quantity
               /\ engine = "legacy" => stock_usage[t.id] = UnitsDrawn(t.name))
    /\ [][(engine = "guillotine" \/ engine = "legacy") =>
            \A t \in Range(inventory) : UnitsDrawn(t.name)' >= UnitsDrawn(t.name)]_vars

\* C17 witness: every unit of a stock type is in service and an instance of a
\* part was left unassigned
StockSupplyWitness ==
    /\ engine = "legacy"
    /\ unassigned_parts # <<>>
    /\ \E t \in Range(inventory) : t.quantity >= 1 /\ UnitsDrawn(t.name) = t.quantity

\* cutting plans of the backend optimizer that draw on a lumber type
LumberPlans(name) ==
    Cardinality({ k \in 1..Len(cutting_plans) : cutting_plans[k].lumber_name = name })

\* C18 (as claimed): in the backend optimizer, for every lumber type the
\* number of cutting plans that draw on the type never exceeds its quantity.
BackendSupplyBound ==
    engine = "backend" =>
       \A t \in Range(inventory) : LumberPlans(t.name) <= t.quantity

RemainingDemandBounded ==
    /\ [](engine = "guillotine" =>
            \A p \in Range(parts) :
               /\ required_left[p.key] >= 0
               /\ required_left[p.key] <= p.quantity_total)
    /\ [][(engine = "guillotine" /\ required_left' # required_left) =>
            \E p \in Range(parts) :
               /\ required_left' = [required_left EXCEPT ![p.key] = @ - 1]
               /\ total_cuts' = total_cuts + 1
               /\ Len(GuillotineCuts') = Len(GuillotineCuts) + 1
               /\ Last(GuillotineCuts').part_key = p.key]_vars

\* C20 witness: the run has returned with the counter of a part of two pieces
\* brought down to 0 and the counter of another part left above 0
RemainingDemandWitness ==
    /\ engine = "guillotine" /\ pc = "done"
    /\ \E p, q \in Range(parts) :
          /\ p.quantity_total = 2 /\ required_left[p.key] = 0
          /\ required_left[q.key] >= 1

\* C21: in a result of the legacy optimizer, success is true exactly when
\* every expanded part instance was placed (no quantity is missing), and the
\* unassigned list has at most one entry per part, each of quantity >= 1.
SuccessFlag ==
    (engine = "legacy" /\ pc = "done") =>
       /\ success(result) <=> (Len(LegacyCuts) = Len(part_list(parts, params)))
       /\ success(result) <=> (\A p \in Range(parts) : LegacyMissing(p.id) = 0)
       /\ \A k \in 1..Len(result.unassigned_parts) :
             /\ result.unassigned_parts[k][2] >= 1
             /\ \A j \in 1..Len(result.unassigned_parts) :
                   j # k => result.unassigned_parts[j][1].id # result.unassigned_parts[k][1].id

\* C21 witness: a result without success in which pieces were placed and two
\* instances of one part were left, consolidated into one entry
SuccessFlagWitness ==
    /\ engine = "legacy" /\ pc = "done"
    /\ ~success(result)
    /\ LegacyCuts # <<>>
    /\ \E k \in 1..Len(result.unassigned_parts) : result.unassigned_parts[k][2] = 2

\* a dimension with every axis > 0, a stock item or part with quantity >= 0
ValidInput ==
    IF engine = "guillotine"
    THEN /\ \A t \in Range(inventory) :
              /\ t.dimensions_mm.length_mm > 0 /\ t.dimensions_mm.width_mm > 0
              /\ t.dimensions_mm.thickness_mm > 0 /\ t.quantity >= 0
         /\ \A p \in Range(parts) :
              /\ p.required_dimensions_mm.length_mm > 0
              /\ p.required_dimensions_mm.width_mm > 0
              /\ p.required_dimensions_mm.thickness_mm > 0 /\ p.quantity_total >= 0
    ELSE /\ \A t \in Range(inventory) :
              t.length > 0 /\ t.width > 0 /\ t.thickness > 0 /\ t.quantity >= 0
         /\ \A p \in Range(parts) :
              p.length > 0 /\ p.width > 0 /\ p.thickness > 0 /\ total_quantity(p) >= 0

\* C22 (as claimed): a dimension with an axis <= 0 and a stock item or part
\* with a negative quantity fail when they are constructed, so no step of an
\* engine is ever taken on such a value.
InvalidInputRejected == [][ValidInput]_vars

\* a requested part instance has a feasible orientation on a stock type that
\* has a unit
SomethingFits ==
    \E p \in Range(parts) : \E t \in Range(inventory) :
       /\ total_quantity(p) >= 1 /\ t.quantity >= 1
       /\ _part_fits_stock(p, t, params)

\* C23: in a result of the legacy optimizer, when some requested part
\* instance has a feasible orientation on a stock type of quantity >= 1, then
\* total_sticks_used >= 1 and equals the number of cutting plans, every
\* cutting plan holds at least one cut, and overall_efficiency > 0.
NonEmptyResult ==
    (engine = "legacy" /\ pc = "done" /\ SomethingFits) =>
       /\ result.total_sticks_used >= 1
       /\ result.total_sticks_used = Len(result.cutting_plans)
       /\ \A k \in 1..Len(result.cutting_plans) : result.cutting_plans[k].cuts # <<>>
       /\ result.overall_efficiency.n > 0 /\ result.overall_efficiency.d > 0

\* C23 witness: a result with two cutting plans or more for an input in which
\* something fits and a part was left unassigned
NonEmptyResultWitness ==
    /\ engine = "legacy" /\ pc = "done" /\ SomethingFits
    /\ result.total_sticks_used >= 2
    /\ result.unassigned_parts # <<>>

\* C24 (as claimed): a part that needs a fresh stock unit is offered the stock
\* types in descending volume order, whatever the order of the inventory
\* list: the unit that receives it is of maximum volume among the types that
\* have a unit left and take the part (legacy optimizer and guillotine engine).
StockOfferedLargestFirst ==
    [][ /\ LegacyOpens =>
              \A t \in Range(inventory) :
                 (stock_usage[t.id] < t.quantity /\ _part_fits_stock(part, t, params))
                    => StockVolume(t) <= StockVolume(Last(cutting_plans').stock)
        /\ \A p \in Range(parts) : GuillotinePlacesOnFresh(p) =>
              \A k \in GuillotineAvailableFor(p) :
                 Volume(inventory[k].dimensions_mm) <= Volume(item.dimensions_mm) ]_vars

\* C25: in the legacy optimizer every pass of the loop takes the next
\* instance, once, and either puts one piece of it on exactly one plan or
\* appends it to the unassigned list, never both; it is appended only when
\* every existing plan declined it and every stock type has no unit left or
\* admits no feasible orientation of it.
UnassignedOnlyAfterExhaustion ==
    /\ [](( engine = "legacy" /\ pc = "for_part") =>
             Len(LegacyCuts) + Len(unassigned_parts) = part_idx - 1)
    /\ [][(engine = "legacy" /\ pc = "for_part" /\ pc' = "for_part") =>
            /\ part_idx' = part_idx + 1
            /\ \/ /\ unassigned_parts' = unassigned_parts
                  /\ Len(LegacyCuts') = Len(LegacyCuts) + 1
                  /\ Last(IF Len(cutting_plans') > Len(cutting_plans)
                          THEN Last(cutting_plans').cuts
                          ELSE cutting_plans'[CHOOSE k \in 1..Len(cutting_plans) :
                                   cutting_plans'[k] # cutting_plans[k]].cuts).part = part
               \/ /\ unassigned_parts' = Append(unassigned_parts, <<part, 1>>)
                  /\ cutting_plans' = cutting_plans
                  /\ \A k \in 1..Len(cutting_plans) :
                        ~(/\ _can_add_part_to_plan(cutting_plans[k], part, params)
                          /\ _get_possible_orientations(part, cutting_plans[k].stock,
                                                        params) # <<>>)
                  /\ \A t \in Range(inventory) :
                        \/ stock_usage[t.id] >= t.quantity
                        \/ _get_possible_orientations(part, t, params) = <<>>]_vars

\* C25 witness: an instance was left unassigned while pieces are on plans and
\* a stock type still has a unit, which admits no orientation of it
UnassignedWitness ==
    /\ engine = "legacy" /\ pc = "for_part"
    /\ unassigned_parts # <<>>
    /\ cutting_plans # <<>>
    /\ \E t \in Range(inventory) :
          /\ stock_usage[t.id] < t.quantity
          /\ _get_possible_orientations(Last(unassigned_parts)[1], t, params) = <<>>

\* the cursor at which the run on a finished unit ended, and the length left
FinalCursor(st) == Last(st.segments).end_mm
TrailingLength(st) == st.dims_mm.length_mm - FinalCursor(st)

\* the offcuts of a unit that cover its trailing length at full width and
\* thickness, from the final cursor
TrailingOffcuts(st) ==
    { k \in 1..Len(StickOffcuts(st)) :
        /\ StickOffcuts(st)[k].dims_mm =
              Dimension3D(TrailingLength(st), st.dims_mm.width_mm,
                          st.dims_mm.thickness_mm)
        /\ StickOffcuts(st)[k].position_mm = <<FinalCursor(st), 0, 0>> }

\* C26 (as claimed): in the guillotine engine, when the run on a stock unit
\* ends with an unused trailing length >= min_offcut_keep, exactly one offcut
\* of that length, of the unit's full width and thickness, at the cursor, is
\* recorded for the unit, whether the run ended because nothing fits or
\* because the demand reached zero.
TrailingOffcut ==
    engine = "guillotine" =>
       \A k \in 1..Len(stick_plans) :
          ( /\ TrailingLength(stick_plans[k]) > 0
            /\ TrailingLength(stick_plans[k]) >= params.min_offcut_keep_mm )
          => Cardinality(TrailingOffcuts(stick_plans[k])) = 1

\* C27: on every stock unit the first piece is at x = 0, every piece has
\* y = 0 and z = 0, each following piece starts at the previous piece's x plus
\* its length along the stock plus the kerf, and no two pieces of a unit
\* overlap along the length axis (guillotine engine and legacy optimizer).
LinearLayout ==
    /\ engine = "guillotine" =>
         \A k \in 1..Len(AllSticks) :
            LET cuts == StickCuts(AllSticks[k])
            IN /\ cuts # <<>> => cuts[1].position_mm[1] = 0
               /\ \A c \in 1..Len(cuts) :
                     /\ cuts[c].position_mm[2] = 0 /\ cuts[c].position_mm[3] = 0
                     /\ c > 1 => cuts[c].position_mm[1] =
                                    cuts[c - 1].position_mm[1]
                                    + cuts[c - 1].dims_mm.length_mm + params.kerf_mm
                     /\ \A b \in 1..(c - 1) :
                           cuts[b].position_mm[1] + cuts[b].dims_mm.length_mm
                              <= cuts[c].position_mm[1]
    /\ engine = "legacy" =>
         \A k \in 1..Len(cutting_plans) :
            LET cuts == cutting_plans[k].cuts
            IN /\ cuts # <<>> => cuts[1].x = 0
               /\ \A c \in 1..Len(cuts) :
                     /\ cuts[c].y = 0 /\ cuts[c].z = 0
                     /\ c > 1 => cuts[c].x = cuts[c - 1].x + cuts[c - 1].actual_length
                                               + params.kerf
                     /\ \A b \in 1..(c - 1) :
                           cuts[b].x + cuts[b].actual_length <= cuts[c].x

\* C27 witness: a cutting plan of the legacy optimizer holds two pieces, cut
\* with a kerf
LinearLayoutWitness ==
    /\ engine = "legacy" /\ params.kerf > 0
    /\ \E k \in 1..Len(cutting_plans) : Len(cutting_plans[k].cuts) >= 2

\* C28: in every result, total_cuts is the number of pieces placed over all
\* stock units, and that is the sum over the parts of the produced count
\* (guillotine: the summary's produced; legacy: requested minus unassigned).
CutCount ==
    pc = "done" =>
       /\ engine = "guillotine" =>
            /\ result.total_cuts = Len(GuillotineCuts)
            /\ result.total_cuts =
                  SumSeq([k \in 1..Len(parts) |->
                            result.summary_by_part[parts[k].key].produced])
       /\ engine = "legacy" =>
            /\ result.total_cuts = Len(LegacyCuts)
            /\ result.total_cuts =
                  SumSeq([k \in 1..Len(parts) |->
                            total_quantity(parts[k]) - LegacyMissing(parts[k].id)])

\* C28 witness: a result of the legacy optimizer with three pieces or more on
\* two plans or more
CutCountWitness ==
    /\ engine = "legacy" /\ pc = "done"
    /\ result.total_cuts >= 3
    /\ Len(result.cutting_plans) >= 2

\* C29 (as claimed): in every result of the guillotine engine and of the
\* legacy optimizer, for every placed piece, the start position along the
\* length axis plus the piece's length along the stock does not exceed the
\* host's length plus the length tolerance.
PiecesStayOnBoard ==
    pc = "done" =>
       /\ engine = "guillotine" =>
            \A k \in 1..Len(stick_plans) : \A c \in Range(StickCuts(stick_plans[k])) :
               c.position_mm[1] + c.dims_mm.length_mm
                  <= stick_plans[k].dims_mm.length_mm + params.tolerance.length_mm
       /\ engine = "legacy" =>
            \A k \in 1..Len(result.cutting_plans) :
               \A c \in Range(result.cutting_plans[k].cuts) :
                  c.x + c.actual_length
                     <= result.cutting_plans[k].stock.length + params.tolerance

\* a percentage n/d of positive denominator lies between 0 and 100
PercentInRange(p) == p.n >= 0 /\ p.n <= p.d

\* C30 (as claimed): for every input with positive dimensions, non-negative
\* quantities, kerf >= 0 and non-negative tolerance, the utilization and the
\* waste percentages reported by the guillotine engine and by the legacy
\* optimizer lie between 0 and 100.
PercentagesInRange ==
    (pc = "done" /\ (engine = "guillotine" \/ engine = "legacy")) =>
       /\ PercentInRange(ReportedUtilization)
       /\ PercentInRange(ReportedWaste)

====
